---- MODULE Spec2Model ----
(***************************************************************************)
(* FinTrader strategy decision engine: the three strategies                *)
(* (src/Strats/RSI_Strat.py, Bol_Strat.py, Rand_Strat.py) and the position *)
(* sizing module (src/Strats/position_sizer.py).                           *)
(*                                                                         *)
(* Numbers.  Python computes in binary floating point; the model computes  *)
(* in exact rational arithmetic.  A rational is a pair <<n, d>> with d > 0 *)
(* in lowest terms.  A Python optional is a sequence of length at most 1:  *)
(* None is <<>> and a present value x is <<x>>.                            *)
(***************************************************************************)
EXTENDS Integers, Sequences, FiniteSets, TLC

VARIABLES
    k_in,       \* kelly_criterion: the five arguments of the call
    k_out,      \* kelly_criterion: None before the call, <<result>> after
    wins,       \* strategy: self.wins
    losses,     \* strategy: self.losses
    sz_wins,    \* AdaptivePositionSizer: self.wins
    sz_losses,  \* AdaptivePositionSizer: self.losses
    h_target,   \* history run: the object the trade notifications go to
    win_log,    \* history run: every return appended to a wins list so far
    loss_log,   \* history run: every return appended to a losses list so far
    variant,    \* which strategy class the engine is: "RSI", "Bol" or "Rand"
    params,     \* strategy: self.params
    order,      \* strategy: self.order, the pending order if any
    entry_price,    \* RSI_Strat.buy_price, Bol_Strat.entry_price
    bar_count_in_position,  \* Rand_Strat.bar_count_in_position
    position,   \* broker: self.position.size
    open_orders,    \* broker: the orders submitted and not yet resolved
    rng,        \* the state of the generator of the random module
    last,       \* what the last handler call was given and what it emitted
    call_in,    \* a sizing call: its arguments; a notification run: the trade
    call_out,   \* a sizing call: None before the call, <<result>> after
    sizer_params,   \* AdaptivePositionSizer: self.params
    twins       \* two Rand_Strat objects of one process and their brokers

kellyVars == <<k_in, k_out>>
historyVars == <<wins, losses>>
sizerVars == <<sz_wins, sz_losses>>
logVars == <<h_target, win_log, loss_log>>
engineVars == <<variant, params, order, entry_price, bar_count_in_position>>
brokerVars == <<position, open_orders>>
vars == <<k_in, k_out, wins, losses, sz_wins, sz_losses, h_target, win_log, loss_log,
          variant, params, order, entry_price, bar_count_in_position,
          position, open_orders, rng, last,
          call_in, call_out, sizer_params, twins>>
callVars == <<call_in, call_out, sizer_params, twins>>

----------------------------------------------------------------------------
(* Python values *)

None == <<>>
Some(x) == <<x>>
Val(o) == o[1]

Abs(n) == IF n < 0 THEN -n ELSE n

RECURSIVE GCD(_, _)
GCD(a, b) == IF b = 0 THEN a ELSE GCD(b, a % b)

\* The rational n/d (d # 0) in lowest terms with a positive denominator.
R(n, d) ==
    LET g == GCD(Abs(n), Abs(d))
        s == IF d < 0 THEN -1 ELSE 1
    IN  <<(s * n) \div g, (s * d) \div g>>

Zero == R(0, 1)
One == R(1, 1)

RAdd(a, b) == R(a[1] * b[2] + b[1] * a[2], a[2] * b[2])
RSub(a, b) == R(a[1] * b[2] - b[1] * a[2], a[2] * b[2])
RMul(a, b) == R(a[1] * b[1], a[2] * b[2])
\* a / b for b # 0; Python raises ZeroDivisionError for b = 0, which every
\* caller below tests before it divides.
RDiv(a, b) == R(a[1] * b[2], a[2] * b[1])
RLt(a, b) == a[1] * b[2] < b[1] * a[2]
RLe(a, b) == a[1] * b[2] <= b[1] * a[2]
RGt(a, b) == RLt(b, a)
RGe(a, b) == RLe(b, a)
RAbs(a) == <<Abs(a[1]), a[2]>>
\* Python's max(a, b) and min(a, b): the first argument wins a tie.
RMax(a, b) == IF RGt(b, a) THEN b ELSE a
RMin(a, b) == IF RLt(b, a) THEN b ELSE a

\* The outcome of a Python call: a returned value, or a raised exception.
Return(v) == [raised |-> FALSE, value |-> v]
Raise == [raised |-> TRUE, value |-> Zero]

----------------------------------------------------------------------------
(* Bounds of the runs *)

MaxTrades == 103        \* closed trades per history run
MaxMinor == 1           \* closed trades on the rarer side (wins or losses)
MaxEngineTrades == 20   \* closed trades per engine run
MaxHeldBars == 3        \* bars counted in one position (Rand_Strat)

----------------------------------------------------------------------------
(* PositionSizer.kelly_criterion, src/Strats/position_sizer.py *)

\* A faulty variant: the avg_win <= 0 test is dropped.
kelly_invalid_no_avg_win(win_rate, avg_win, avg_loss) ==
    \/ RLt(win_rate, Zero) \/ RGt(win_rate, One)
    \/ RGe(avg_loss, Zero)
    \/ win_rate = Zero

\* Lines 37-45: the inputs for which the function returns 0.0 at once.
kelly_invalid(win_rate, avg_win, avg_loss) ==
    \/ RLt(win_rate, Zero) \/ RGt(win_rate, One)
    \/ RGe(avg_loss, Zero) \/ RLe(avg_win, Zero)
    \/ win_rate = Zero

\* A faulty variant: the win_rate == 1.0 branch is dropped.
kelly_raw_no_always_wins(win_rate, avg_win, avg_loss, max_leverage) ==
    IF RDiv(avg_win, avg_loss) = Zero
    THEN Raise
    ELSE Return(RSub(win_rate,
                     RDiv(RSub(One, win_rate), RAbs(RDiv(avg_win, avg_loss)))))

\* A faulty variant: the win/loss ratio is taken without abs().
kelly_raw_no_abs(win_rate, avg_win, avg_loss, max_leverage) ==
    IF win_rate = One
    THEN Return(max_leverage)
    ELSE IF RDiv(avg_win, avg_loss) = Zero
         THEN Raise
         ELSE Return(RSub(win_rate,
                          RDiv(RSub(One, win_rate), RDiv(avg_win, avg_loss))))

\* Lines 47-54: the raw Kelly value; called with avg_loss < 0 only.
kelly_raw(win_rate, avg_win, avg_loss, max_leverage) ==
    IF win_rate = One
    THEN Return(max_leverage)
    ELSE LET win_loss_ratio == RAbs(RDiv(avg_win, avg_loss))
         IN  IF win_loss_ratio = Zero
             THEN Raise
             ELSE Return(RSub(win_rate, RDiv(RSub(One, win_rate), win_loss_ratio)))

\* A faulty variant: the upper clamp is dropped.
kelly_clamp_no_min(kelly, max_leverage) == RMax(Zero, kelly)

\* Line 60: max(0.0, min(kelly, max_leverage)).
kelly_clamp(kelly, max_leverage) == RMax(Zero, RMin(kelly, max_leverage))

\* Lines 19-62.
kelly_criterion(win_rate, avg_win, avg_loss, max_leverage, fraction) ==
    IF kelly_invalid(win_rate, avg_win, avg_loss)
    THEN Return(Zero)
    ELSE LET raw == kelly_raw(win_rate, avg_win, avg_loss, max_leverage)
         IN  IF raw.raised
             THEN Raise
             ELSE Return(kelly_clamp(RMul(raw.value, fraction), max_leverage))

\* Lines 65-75.
fixed_fractional(fraction) == RMax(Zero, RMin(fraction, One))

\* The example of the function's documentation in the specification.
KellyExample ==
    [win_rate |-> R(3, 5), avg_win |-> R(1, 50), avg_loss |-> R(-1, 100),
     max_leverage |-> R(1, 1), fraction |-> R(1, 4)]

----------------------------------------------------------------------------
(* Trade history: notify_trade of RSI_Strat and Bol_Strat (the same text in *)
(* both) and of AdaptivePositionSizer.                                      *)

HistoryCap == 100

\* A trade notification: trade.isclosed, trade.pnlcomm, trade.value.
Trade(isclosed, pnlcomm, value) ==
    [isclosed |-> isclosed, pnlcomm |-> pnlcomm, value |-> value]

\* trade.pnlcomm / abs(trade.value) if trade.value != 0 else 0
trade_return(trade) ==
    IF trade.value # Zero THEN RDiv(trade.pnlcomm, RAbs(trade.value)) ELSE Zero

\* A faulty variant: the slice keeps one entry too many.
last_100_off_by_one(list) ==
    IF Len(list) > HistoryCap
    THEN SubSeq(list, Len(list) - HistoryCap, Len(list))
    ELSE list

\* A faulty variant: the slice keeps 98 entries, list[-98:].
last_100_short(list) ==
    IF Len(list) > HistoryCap
    THEN SubSeq(list, Len(list) - HistoryCap + 3, Len(list))
    ELSE list

\* A faulty variant: the slice keeps the oldest entries, list[:100].
last_100_oldest(list) ==
    IF Len(list) > HistoryCap THEN SubSeq(list, 1, HistoryCap) ELSE list

\* if len(list) > 100: list = list[-100:]
last_100(list) ==
    IF Len(list) > HistoryCap
    THEN SubSeq(list, Len(list) - HistoryCap + 1, Len(list))
    ELSE list

\* A faulty variant: a trade that is still open is recorded too.
record_trade_open_too(w, l, trade) ==
    LET r == trade_return(trade)
        w1 == IF RGt(trade.pnlcomm, Zero) THEN Append(w, r) ELSE w
        l1 == IF RGt(trade.pnlcomm, Zero) THEN l ELSE Append(l, r)
    IN  [wins |-> last_100(w1), losses |-> last_100(l1)]

\* The lists after notify_trade(trade), from the lists w and l before it.
record_trade(w, l, trade) ==
    IF ~trade.isclosed
    THEN [wins |-> w, losses |-> l]
    ELSE LET r == trade_return(trade)
             w1 == IF RGt(trade.pnlcomm, Zero) THEN Append(w, r) ELSE w
             l1 == IF RGt(trade.pnlcomm, Zero) THEN l ELSE Append(l, r)
         IN  [wins |-> last_100(w1), losses |-> last_100(l1)]

\* RSI_Strat.notify_trade, Bol_Strat.notify_trade
notify_trade(trade) ==
    /\ wins' = record_trade(wins, losses, trade).wins
    /\ losses' = record_trade(wins, losses, trade).losses

\* AdaptivePositionSizer.notify_trade
sizer_notify_trade(trade) ==
    /\ sz_wins' = record_trade(sz_wins, sz_losses, trade).wins
    /\ sz_losses' = record_trade(sz_wins, sz_losses, trade).losses

HistoryIdle ==
    /\ wins = <<>> /\ losses = <<>>
    /\ sz_wins = <<>> /\ sz_losses = <<>>
    /\ h_target = "engine"
    /\ win_log = <<>> /\ loss_log = <<>>

----------------------------------------------------------------------------
(* The strategies: configuration and construction *)

MinTradesForKelly == 20

\* The params tuple of the three classes in one record; a class reads its
\* own fields only.
DefaultParams ==
    [rsi_oversold |-> R(20, 1), rsi_overbought |-> R(80, 1),
     position_method |-> "fixed", position_size |-> R(1, 50),
     kelly_fraction |-> R(1, 4),
     exit_on_middle |-> TRUE, stop_loss_pct |-> None, take_profit_pct |-> None,
     trade_probability |-> R(1, 2), hold_bars |-> 2, seed |-> None]

\* The configurations a run is started with.
ParamsOf(v) ==
    IF v = "RSI"
    THEN {[DefaultParams EXCEPT !.position_method = m] : m \in {"fixed", "kelly"}}
    ELSE IF v = "Bol"
    THEN {[DefaultParams EXCEPT !.position_method = m, !.exit_on_middle = e,
                                !.stop_loss_pct = sl, !.take_profit_pct = tp] :
            m \in {"fixed", "kelly"}, e \in BOOLEAN,
            sl \in {None, Some(R(5, 1))}, tp \in {None, Some(R(10, 1))}}
    ELSE {[DefaultParams EXCEPT !.seed = sd] : sd \in {None, Some(3)}}

\* What a handler call saw and did: the event, the bar's values, whether an
\* order was pending and the position when it began, the orders it
\* submitted, the exit reason it chose and how it sized an entry.  For a
\* Rand_Strat, bars_held counts the bars fed to next() since the last buy
\* was filled, pending or not, up to MaxHeldBars + 1.  since_failure tells
\* that the last order notification was Canceled, Margin or Rejected and
\* that no order has been submitted since.
NoBar == [price |-> Zero, rsi |-> Zero, top |-> Zero, mid |-> Zero, bot |-> Zero,
          cash |-> Zero, value |-> Zero]
NoSizing == [rule |-> "", kelly_called |-> FALSE, total_trades |-> 0]
Seen(event, bar, intents, reason, sizing) ==
    [event |-> event, bar |-> bar, pending_before |-> order # None,
     position_before |-> position, intents |-> intents,
     exit_reason |-> reason, sizing |-> sizing, status |-> "",
     trade_closed |-> FALSE,
     since_failure |-> last.since_failure /\ last.intents = <<>>,
     bars_held |-> IF /\ variant = "Rand" /\ event \in {"bar", "fault"}
                      /\ position # Zero /\ last.bars_held <= MaxHeldBars
                   THEN last.bars_held + 1
                   ELSE last.bars_held]
NothingSeen ==
    [event |-> "init", bar |-> NoBar, pending_before |-> FALSE,
     position_before |-> Zero, intents |-> <<>>,
     exit_reason |-> "", sizing |-> NoSizing, status |-> "",
     trade_closed |-> FALSE, since_failure |-> FALSE, bars_held |-> 0]

\* The random module: one generator for the process.  random.seed(s) sets
\* its state from s alone and random.random() returns state / RngMod and
\* steps the state.
RngMod == 8
seeded(s) == s % RngMod
rng_value(g) == R(g, RngMod)
rng_step(g) == (5 * g + 3) % RngMod

\* __init__ of the three classes.  Only Rand_Strat touches the generator:
\* it seeds it when a seed is given and else finds it in any state.
EngineInitOf(v) ==
    /\ variant = v
    /\ params \in ParamsOf(v)
    /\ order = None
    /\ entry_price = None
    /\ bar_count_in_position = 0
    /\ wins = <<>> /\ losses = <<>>
    /\ IF v # "Rand" THEN rng = 0
       ELSE IF params.seed # None
       THEN rng = seeded(Val(params.seed))
       ELSE rng \in 0..(RngMod - 1)

\* The AdaptivePositionSizer params tuple, lines 85-92.
DefaultSizerParams ==
    [method |-> "kelly", kelly_fraction |-> R(1, 4), fixed_size |-> R(1, 10),
     min_trades |-> 20, max_position |-> R(3, 10), min_position |-> R(1, 20)]

\* A Rand_Strat object not yet constructed, with its broker: the object's
\* attributes, the broker's position and order book, and the record of what
\* the object was fed (inputs) and what it decided on each bar (decisions).
NoTwin ==
    [built |-> FALSE, order |-> None, bar_count_in_position |-> 0,
     position |-> Zero, open_orders |-> <<>>, inputs |-> <<>>, decisions |-> <<>>]

\* The variables of the sizing calls and of the twin run in the runs that
\* have neither.
CallIdle ==
    /\ call_in = None /\ call_out = None
    /\ sizer_params = DefaultSizerParams
    /\ twins = <<NoTwin, NoTwin>>

\* The engine variables in the runs that have no engine.
EngineIdle ==
    /\ variant = "RSI" /\ params = DefaultParams
    /\ order = None /\ entry_price = None /\ bar_count_in_position = 0
    /\ position = Zero /\ open_orders = <<>>
    /\ rng = 0
    /\ last = NothingSeen
    /\ CallIdle

----------------------------------------------------------------------------
(* Position sizing of RSI_Strat and Bol_Strat (the same text in both) *)

\* Python's sum(list).  The additions are exact, so their grouping does not
\* matter: the list is summed by halves.
RECURSIVE sum(_)
sum(list) ==
    IF Len(list) = 0 THEN Zero
    ELSE IF Len(list) = 1 THEN list[1]
    ELSE LET h == Len(list) \div 2
         IN  RAdd(sum(SubSeq(list, 1, h)), sum(SubSeq(list, h + 1, Len(list))))

\* A faulty variant: the threshold test is > instead of >=.
enough_history_gt(total_trades) == total_trades > MinTradesForKelly

\* total_trades >= self.min_trades_for_kelly
enough_history(total_trades) == total_trades >= MinTradesForKelly

Sized(size, rule, called, total) ==
    [raised |-> FALSE, size |-> size,
     sizing |-> [rule |-> rule, kelly_called |-> called, total_trades |-> total]]
SizingRaised ==
    [raised |-> TRUE, size |-> Zero, sizing |-> NoSizing]

\* A faulty variant: the configured fraction is left out.
fixed_size_all_cash(cash, current_price) ==
    RDiv(cash, current_price)

\* (cash * self.params.position_size) / current_price
fixed_size(cash, current_price) ==
    RDiv(RMul(cash, params.position_size), current_price)

\* calculate_position_size: the size, and the branch that computed it.
calculate_position_size(cash, portfolio_value, current_price) ==
    LET total_trades == Len(wins) + Len(losses)
    IN  IF current_price = Zero
        THEN SizingRaised
        ELSE IF params.position_method = "kelly"
        THEN IF enough_history(total_trades)
             THEN LET win_rate == R(Len(wins), total_trades)
                      avg_win == IF wins # <<>>
                                 THEN RDiv(sum(wins), R(Len(wins), 1))
                                 ELSE R(1, 50)
                      avg_loss == IF losses # <<>>
                                  THEN RDiv(sum(losses), R(Len(losses), 1))
                                  ELSE R(-3, 200)
                      kelly_fraction ==
                          kelly_criterion(win_rate, avg_win, avg_loss, One,
                                          params.kelly_fraction)
                  IN  IF kelly_fraction.raised
                      THEN SizingRaised
                      ELSE IF RGt(kelly_fraction.value, Zero)
                      THEN Sized(RDiv(RMul(portfolio_value, kelly_fraction.value),
                                      current_price),
                                 "kelly", TRUE, total_trades)
                      ELSE Sized(fixed_size(cash, current_price),
                                 "fixed", TRUE, total_trades)
             ELSE Sized(fixed_size(cash, current_price), "fixed", FALSE, total_trades)
        ELSE Sized(fixed_size(cash, current_price), "fixed", FALSE, total_trades)

----------------------------------------------------------------------------
(* AdaptivePositionSizer._getsizing, src/Strats/position_sizer.py *)

\* Python's int() of a number: truncation towards 0.
int(x) ==
    IF x[1] >= 0 THEN R(x[1] \div x[2], 1) ELSE R(-((-x[1]) \div x[2]), 1)

\* np.mean of a non-empty list.
mean(list) == RDiv(sum(list), R(Len(list), 1))

\* What a call of _getsizing gives: the value returned or an exception, and
\* the position_fraction it reached (None on the sell path).
SizerOutcome(raised, size, fraction) ==
    [raised |-> raised, size |-> size, fraction |-> fraction]

\* A faulty variant: the lower bound is not applied.
sizer_clamp_no_min(position_fraction) ==
    RMin(position_fraction, sizer_params.max_position)

\* Lines 128-129: max(min_position, min(position_fraction, max_position)).
sizer_clamp(position_fraction) ==
    RMax(sizer_params.min_position, RMin(position_fraction, sizer_params.max_position))

\* Lines 110-125: the fraction before the bounds are applied.
sizer_fraction ==
    LET total_trades == Len(sz_wins) + Len(sz_losses)
    IN  IF sizer_params.method = "kelly" /\ total_trades >= sizer_params.min_trades
        THEN LET win_rate == IF total_trades > 0
                             THEN R(Len(sz_wins), total_trades)
                             ELSE R(1, 2)
                 avg_win == IF sz_wins # <<>> THEN mean(sz_wins) ELSE R(1, 50)
                 avg_loss == IF sz_losses # <<>> THEN mean(sz_losses) ELSE R(-3, 200)
             IN  kelly_criterion(win_rate, avg_win, avg_loss,
                                 sizer_params.max_position, sizer_params.kelly_fraction)
        ELSE Return(sizer_params.fixed_size)

\* A faulty variant: a sell request is sized like a buy request.
getsizing_sell_as_buy(isbuy, portfolio_value, close) ==
    IF sizer_fraction.raised
    THEN SizerOutcome(TRUE, Zero, None)
    ELSE LET position_fraction == sizer_clamp(sizer_fraction.value)
             position_value == RMul(portfolio_value, position_fraction)
         IN  IF close = Zero
             THEN SizerOutcome(TRUE, Zero, Some(position_fraction))
             ELSE SizerOutcome(FALSE, int(RDiv(position_value, close)),
                               Some(position_fraction))

\* _getsizing(comminfo, cash, data, isbuy), lines 99-135; comminfo and cash
\* are not read.
getsizing(isbuy, portfolio_value, close) ==
    IF ~isbuy
    THEN SizerOutcome(FALSE, position, None)
    ELSE IF sizer_fraction.raised
    THEN SizerOutcome(TRUE, Zero, None)
    ELSE LET position_fraction == sizer_clamp(sizer_fraction.value)
             position_value == RMul(portfolio_value, position_fraction)
         IN  IF close = Zero
             THEN SizerOutcome(TRUE, Zero, Some(position_fraction))
             ELSE SizerOutcome(FALSE, int(RDiv(position_value, close)),
                               Some(position_fraction))

----------------------------------------------------------------------------
(* The per-bar handlers and the notification handlers *)

\* Python truth of an optional number: neither None nor 0.
Truthy(o) == o # None /\ Val(o) # Zero

\* A faulty variant: the pending test is dropped.
order_pending_ignored == FALSE

\* if self.order: return
order_pending == order # None

\* self.buy(size=...) and self.sell(size=...): the broker takes the order
\* and hands back its handle.
Order(isbuy, size) == [isbuy |-> isbuy, size |-> size]
submit(o) ==
    /\ order' = Some(o)
    /\ open_orders' = Append(open_orders, o)

\* A bar on which next() submits nothing.
no_order(bar) ==
    /\ UNCHANGED <<order, open_orders>>
    /\ last' = Seen("bar", bar, <<>>, "", NoSizing)

\* The entry of RSI_Strat.next and Bol_Strat.next.
enter(bar) ==
    LET s == calculate_position_size(bar.cash, bar.value, bar.price)
    IN  IF s.raised
        THEN /\ UNCHANGED <<order, open_orders>>
             /\ last' = Seen("fault", bar, <<>>, "", NoSizing)
        ELSE /\ submit(Order(TRUE, s.size))
             /\ last' = Seen("bar", bar, <<Order(TRUE, s.size)>>, "", s.sizing)

\* A faulty variant: half of the position is sold.
exit_half(bar, reason) ==
    /\ submit(Order(FALSE, RDiv(position, R(2, 1))))
    /\ last' = Seen("bar", bar, <<Order(FALSE, RDiv(position, R(2, 1)))>>, reason,
                    NoSizing)

\* self.order = self.sell(size=self.position.size)
exit(bar, reason) ==
    /\ submit(Order(FALSE, position))
    /\ last' = Seen("bar", bar, <<Order(FALSE, position)>>, reason, NoSizing)

\* A faulty variant: the two threshold comparisons are not strict.
RSI_next_not_strict(bar) ==
    /\ IF order_pending
       THEN no_order(bar)
       ELSE IF position = Zero
            THEN IF RLe(bar.rsi, params.rsi_oversold)
                 THEN enter(bar)
                 ELSE no_order(bar)
            ELSE IF RGe(bar.rsi, params.rsi_overbought)
                 THEN exit(bar, "rsi overbought")
                 ELSE no_order(bar)
    /\ UNCHANGED <<entry_price, bar_count_in_position, rng>>

\* RSI_Strat.next
RSI_next(bar) ==
    /\ IF order_pending
       THEN no_order(bar)
       ELSE IF position = Zero
            THEN IF RLt(bar.rsi, params.rsi_oversold)
                 THEN enter(bar)
                 ELSE no_order(bar)
            ELSE IF RGt(bar.rsi, params.rsi_overbought)
                 THEN exit(bar, "rsi overbought")
                 ELSE no_order(bar)
    /\ UNCHANGED <<entry_price, bar_count_in_position, rng>>

\* Bol_Strat.next, lines 168-193: the exit reason, "" when should_exit
\* stays False.
exit_reason(bar) ==
    IF RGt(bar.price, bar.top)
    THEN "upper band"
    ELSE IF params.exit_on_middle /\ RGt(bar.price, bar.mid)
    THEN "middle band"
    ELSE IF Truthy(params.stop_loss_pct) /\ Truthy(entry_price)
    THEN LET stop_price ==
                 RMul(Val(entry_price),
                      RSub(One, RDiv(Val(params.stop_loss_pct), R(100, 1))))
         IN  IF RLt(bar.price, stop_price) THEN "stop loss" ELSE ""
    ELSE IF Truthy(params.take_profit_pct) /\ Truthy(entry_price)
    THEN LET target_price ==
                 RMul(Val(entry_price),
                      RAdd(One, RDiv(Val(params.take_profit_pct), R(100, 1))))
         IN  IF RGt(bar.price, target_price) THEN "take profit" ELSE ""
    ELSE ""

\* A faulty variant: the entry is not limited to a flat engine.
Bol_next_adds_to_position(bar) ==
    /\ IF order_pending
       THEN no_order(bar)
       ELSE IF RLt(bar.price, bar.bot)
            THEN enter(bar)
            ELSE IF position # Zero /\ exit_reason(bar) # ""
                 THEN exit(bar, exit_reason(bar))
                 ELSE no_order(bar)
    /\ UNCHANGED <<entry_price, bar_count_in_position, rng>>

\* Bol_Strat.next
Bol_next(bar) ==
    /\ IF order_pending
       THEN no_order(bar)
       ELSE IF position = Zero
            THEN IF RLt(bar.price, bar.bot)
                 THEN enter(bar)
                 ELSE no_order(bar)
            ELSE IF exit_reason(bar) # ""
                 THEN exit(bar, exit_reason(bar))
                 ELSE no_order(bar)
    /\ UNCHANGED <<entry_price, bar_count_in_position, rng>>

\* A faulty variant: the counter and the random draw come before the
\* pending test.
Rand_next_draws_while_pending(bar) ==
    /\ bar_count_in_position' =
           IF position # Zero THEN bar_count_in_position + 1 ELSE bar_count_in_position
    /\ rng' = rng_step(rng)
    /\ IF order_pending \/ ~RLt(rng_value(rng), params.trade_probability)
       THEN no_order(bar)
       ELSE IF position = Zero
            THEN submit(Order(TRUE, fixed_size(bar.cash, bar.price)))
                 /\ last' = Seen("bar", bar,
                                 <<Order(TRUE, fixed_size(bar.cash, bar.price))>>,
                                 "", NoSizing)
            ELSE IF bar_count_in_position' >= params.hold_bars
                 THEN exit(bar, "random")
                 ELSE no_order(bar)
    /\ UNCHANGED entry_price

\* Rand_Strat.next
Rand_next(bar) ==
    /\ IF order_pending
       THEN /\ no_order(bar)
            /\ UNCHANGED <<bar_count_in_position, rng>>
       ELSE LET count == IF position # Zero
                         THEN bar_count_in_position + 1
                         ELSE bar_count_in_position
                should_trade == RLt(rng_value(rng), params.trade_probability)
            IN  /\ bar_count_in_position' = count
                /\ rng' = rng_step(rng)
                /\ IF ~should_trade
                   THEN no_order(bar)
                   ELSE IF position = Zero
                        THEN IF bar.price = Zero
                             THEN /\ UNCHANGED <<order, open_orders>>
                                  /\ last' = Seen("fault", bar, <<>>, "", NoSizing)
                             ELSE LET size == fixed_size(bar.cash, bar.price)
                                  IN  /\ submit(Order(TRUE, size))
                                      /\ last' = Seen("bar", bar, <<Order(TRUE, size)>>,
                                                      "", NoSizing)
                        ELSE IF count >= params.hold_bars
                             THEN exit(bar, "random")
                             ELSE no_order(bar)
    /\ UNCHANGED entry_price

\* An order notification: order.status, order.isbuy(), order.executed.price.
Notice(status, isbuy, price) == [status |-> status, isbuy |-> isbuy, price |-> price]

\* A faulty variant: an order that did not complete also drops the entry
\* price and restarts the holding counter.
notify_order_failure_resets(o) ==
    IF o.status \in {"Submitted", "Accepted"}
    THEN UNCHANGED <<order, entry_price, bar_count_in_position>>
    ELSE /\ order' = None
         /\ entry_price' =
                IF o.status = "Completed" /\ variant \in {"RSI", "Bol"} /\ o.isbuy
                THEN Some(o.price)
                ELSE None
         /\ bar_count_in_position' = 0

\* A faulty variant: Submitted and Accepted clear the pending order too.
notify_order_clears_on_accepted(o) ==
    /\ order' = None
    /\ entry_price' =
           IF o.status = "Completed" /\ variant \in {"RSI", "Bol"} /\ o.isbuy
           THEN Some(o.price)
           ELSE IF o.status = "Completed" /\ variant = "Bol" /\ ~o.isbuy
           THEN None
           ELSE entry_price
    /\ bar_count_in_position' =
           IF o.status = "Completed" /\ variant = "Rand" /\ o.isbuy
           THEN 0
           ELSE bar_count_in_position

\* A faulty variant: a completed buy leaves the holding counter as it is.
notify_order_keeps_counter(o) ==
    IF o.status \in {"Submitted", "Accepted"}
    THEN UNCHANGED <<order, entry_price, bar_count_in_position>>
    ELSE /\ order' = None
         /\ entry_price' =
                IF o.status = "Completed" /\ variant \in {"RSI", "Bol"} /\ o.isbuy
                THEN Some(o.price)
                ELSE IF o.status = "Completed" /\ variant = "Bol" /\ ~o.isbuy
                THEN None
                ELSE entry_price
         /\ UNCHANGED bar_count_in_position

\* A faulty variant: an order that was Canceled, Margin or Rejected stays
\* pending.
notify_order_failure_keeps_pending(o) ==
    IF o.status # "Completed"
    THEN UNCHANGED <<order, entry_price, bar_count_in_position>>
    ELSE /\ order' = None
         /\ entry_price' =
                IF variant \in {"RSI", "Bol"} /\ o.isbuy THEN Some(o.price)
                ELSE IF variant = "Bol" /\ ~o.isbuy THEN None
                ELSE entry_price
         /\ bar_count_in_position' =
                IF variant = "Rand" /\ o.isbuy THEN 0 ELSE bar_count_in_position

\* notify_order of the three classes.
notify_order(o) ==
    IF o.status \in {"Submitted", "Accepted"}
    THEN UNCHANGED <<order, entry_price, bar_count_in_position>>
    ELSE /\ order' = None
         /\ entry_price' =
                IF o.status = "Completed" /\ variant \in {"RSI", "Bol"} /\ o.isbuy
                THEN Some(o.price)
                ELSE IF o.status = "Completed" /\ variant = "Bol" /\ ~o.isbuy
                THEN None
                ELSE entry_price
         /\ bar_count_in_position' =
                IF o.status = "Completed" /\ variant = "Rand" /\ o.isbuy
                THEN 0
                ELSE bar_count_in_position

----------------------------------------------------------------------------
(* An engine run: one strategy, the broker and the bar feed *)

Statuses == {"Submitted", "Accepted", "Completed", "Canceled", "Margin", "Rejected"}
FailureStatuses == {"Canceled", "Margin", "Rejected"}

\* The values a bar brings: close price, the indicators, and what the
\* broker answers to get_cash() and getvalue().  The bars of an engine run
\* close above 0; a close of 0 is met in the sizing calls further down.
BarOf(price, rsi) ==
    [price |-> R(price, 1), rsi |-> R(rsi, 1),
     top |-> R(110, 1), mid |-> R(100, 1), bot |-> R(90, 1),
     cash |-> R(1000, 1), value |-> R(1000, 1)]
Bars(v) ==
    IF v = "RSI" THEN {BarOf(100, r) : r \in {15, 20, 50, 80, 85}}
    ELSE IF v = "Bol" THEN {BarOf(p, 50) : p \in {80, 95, 105, 120}}
    ELSE {BarOf(100, 50)}

\* The prices the broker executes at.
FillPrices == {R(80, 1), R(105, 1)}

\* The trade notifications of an engine run.
EngineTrades ==
    {Trade(c, R(p, 1), R(100, 1)) : c \in BOOLEAN, p \in {1, -1}}

EngineTradeAllowed(trade) ==
    trade.isclosed =>
        /\ Len(wins) + Len(losses) < MaxEngineTrades
        /\ IF RGt(trade.pnlcomm, Zero)
           THEN Len(wins) < MaxMinor \/ Len(losses) <= MaxMinor
           ELSE Len(losses) < MaxMinor \/ Len(wins) <= MaxMinor

Init ==
    /\ k_in = KellyExample /\ k_out = None
    /\ sz_wins = <<>> /\ sz_losses = <<>>
    /\ h_target = "engine" /\ win_log = <<>> /\ loss_log = <<>>
    /\ \E v \in {"RSI", "Bol", "Rand"} : EngineInitOf(v)
    /\ position = Zero /\ open_orders = <<>>
    /\ last = NothingSeen
    /\ CallIdle

Aside == <<kellyVars, sizerVars, logVars, variant, params, callVars>>

RSI_Bar ==
    /\ variant = "RSI"
    /\ \E bar \in Bars("RSI") : RSI_next(bar)
    /\ UNCHANGED <<Aside, historyVars, position>>

Bol_Bar ==
    /\ variant = "Bol"
    /\ \E bar \in Bars("Bol") : Bol_next(bar)
    /\ UNCHANGED <<Aside, historyVars, position>>

Rand_Bar ==
    /\ variant = "Rand"
    /\ order_pending \/ position = Zero \/ bar_count_in_position < MaxHeldBars
    /\ \E bar \in Bars("Rand") : Rand_next(bar)
    /\ UNCHANGED <<Aside, historyVars, position>>

\* The broker resolves or reports on an order it holds and notifies the
\* strategy; a Completed order has changed the position by then.
OrderNotification ==
    /\ \E i \in 1..Len(open_orders), status \in Statuses, price \in FillPrices :
          LET o == open_orders[i]
          IN  /\ open_orders' =
                     IF status \in {"Submitted", "Accepted"}
                     THEN open_orders
                     ELSE SubSeq(open_orders, 1, i - 1)
                            \o SubSeq(open_orders, i + 1, Len(open_orders))
              /\ position' =
                     IF status # "Completed" THEN position
                     ELSE IF o.isbuy THEN RAdd(position, o.size)
                     ELSE RSub(position, o.size)
              /\ last' = [Seen("order", NoBar, <<>>, "", NoSizing) EXCEPT
                             !.status = status,
                             !.since_failure = status \in FailureStatuses,
                             !.bars_held = IF status = "Completed" /\ o.isbuy
                                           THEN 0 ELSE @]
              /\ notify_order(Notice(status, o.isbuy, price))
    /\ UNCHANGED <<Aside, historyVars, rng>>

\* The broker notifies the strategy of a trade; Rand_Strat.notify_trade
\* keeps no history.
TradeNotification ==
    /\ \E trade \in EngineTrades :
          /\ EngineTradeAllowed(trade)
          /\ IF variant = "Rand"
             THEN UNCHANGED historyVars
             ELSE notify_trade(trade)
          /\ last' = [Seen("trade", NoBar, <<>>, "", NoSizing) EXCEPT
                         !.trade_closed = trade.isclosed]
    /\ UNCHANGED <<Aside, order, entry_price, bar_count_in_position, brokerVars, rng>>

Next == RSI_Bar \/ Bol_Bar \/ Rand_Bar \/ OrderNotification \/ TradeNotification

Spec == Init /\ [][Next]_vars

----------------------------------------------------------------------------
(* kelly_criterion as a pure function: the arguments are drawn at the start *)
(* and one call is made.                                                    *)

WinRates == {R(-1, 2), R(0, 1), R(1, 4), R(1, 2), R(3, 5), R(1, 1), R(3, 2)}
AvgWins == {R(-1, 50), R(0, 1), R(1, 100), R(1, 50)}
AvgLosses == {R(-3, 200), R(-1, 100), R(0, 1), R(1, 100)}
Leverages == {R(-1, 1), R(0, 1), R(3, 10), R(1, 1), R(2, 1)}
Fractions == {R(-1, 2), R(0, 1), R(1, 4), R(1, 2), R(1, 1), R(2, 1)}

KellyInputs ==
    [win_rate : WinRates, avg_win : AvgWins, avg_loss : AvgLosses,
     max_leverage : Leverages, fraction : Fractions]

KellyInit ==
    /\ k_in \in KellyInputs
    /\ k_out = None
    /\ HistoryIdle
    /\ EngineIdle

KellyCall ==
    /\ k_out = None
    /\ k_out' = Some(kelly_criterion(k_in.win_rate, k_in.avg_win, k_in.avg_loss,
                                     k_in.max_leverage, k_in.fraction))
    /\ UNCHANGED <<k_in, historyVars, sizerVars, logVars, engineVars, brokerVars, rng, last,
                   callVars>>

KellyNext == KellyCall

SpecKelly == KellyInit /\ [][KellyNext]_vars

----------------------------------------------------------------------------
(* A history run: one object, a strategy or an AdaptivePositionSizer, is   *)
(* sent trade notifications only.  The k-th closed trade carries the       *)
(* return +k or -k, so that the entries of a list tell their arrival order.*)

HistInit ==
    /\ k_in = KellyExample /\ k_out = None
    /\ wins = <<>> /\ losses = <<>>
    /\ sz_wins = <<>> /\ sz_losses = <<>>
    /\ h_target \in {"engine", "sizer"}
    /\ win_log = <<>> /\ loss_log = <<>>
    /\ EngineIdle

ClosedSoFar == Len(win_log) + Len(loss_log)

\* The notifications the broker may send next in a history run.
HistTrades ==
    LET k == ClosedSoFar + 1
    IN  {Trade(TRUE, R(k, 1), R(1, 1)), Trade(TRUE, R(-k, 1), R(-1, 1)),
         Trade(FALSE, R(k, 1), R(1, 1))}

HistAllowed(trade) ==
    trade.isclosed =>
        /\ ClosedSoFar < MaxTrades
        /\ IF RGt(trade.pnlcomm, Zero)
           THEN Len(win_log) < MaxMinor \/ Len(loss_log) <= MaxMinor
           ELSE Len(loss_log) < MaxMinor \/ Len(win_log) <= MaxMinor

LogTrade(trade) ==
    /\ win_log' = IF trade.isclosed /\ RGt(trade.pnlcomm, Zero)
                  THEN Append(win_log, trade_return(trade)) ELSE win_log
    /\ loss_log' = IF trade.isclosed /\ ~RGt(trade.pnlcomm, Zero)
                   THEN Append(loss_log, trade_return(trade)) ELSE loss_log
    /\ UNCHANGED h_target

HistStrategyTrade ==
    /\ h_target = "engine"
    /\ \E trade \in HistTrades :
          /\ HistAllowed(trade)
          /\ notify_trade(trade)
          /\ LogTrade(trade)
    /\ UNCHANGED <<kellyVars, sizerVars, engineVars, brokerVars, rng, last, callVars>>

HistSizerTrade ==
    /\ h_target = "sizer"
    /\ \E trade \in HistTrades :
          /\ HistAllowed(trade)
          /\ sizer_notify_trade(trade)
          /\ LogTrade(trade)
    /\ UNCHANGED <<kellyVars, historyVars, engineVars, brokerVars, rng, last, callVars>>

HistNext == HistStrategyTrade \/ HistSizerTrade

SpecHist == HistInit /\ [][HistNext]_vars

----------------------------------------------------------------------------
(* calculate_position_size as a function of the strategy's configuration,  *)
(* its recorded history and what the broker and the bar report: all are    *)
(* drawn at the start and one call is made.                                *)

MaxSide == 20           \* entries of one history list in a sizing call

\* n entries of the return x.
Rep(x, n) == [i \in 1..n |-> x]

\* Returns notify_trade can have recorded: a win is a return >= 0 (0 for a
\* trade of value 0), a loss is a return <= 0.
SizeWinReturns == {R(0, 1), R(1, 100), R(1, 50)}
SizeLossReturns == {R(-1, 50), R(-1, 100), R(0, 1)}
SizeLens == {0, 1, MaxSide \div 2, MaxSide - 1, MaxSide}

SizeParams ==
    {[DefaultParams EXCEPT !.position_method = m, !.position_size = f] :
        m \in {"fixed", "kelly"}, f \in {R(-1, 2), R(0, 1), R(1, 50), R(3, 2)}}

\* get_cash(), getvalue() and data.close[0].  The value is the cash when
\* the account is flat and more when the broker holds other positions.
SizeCalls ==
    {[cash |-> R(c, 1), value |-> R(c + v, 1), price |-> R(p, 1)] :
        c \in {1000}, v \in {0, 200}, p \in {0, 100}}

SizeInit ==
    /\ k_in = KellyExample /\ k_out = None
    /\ sz_wins = <<>> /\ sz_losses = <<>>
    /\ h_target = "engine" /\ win_log = <<>> /\ loss_log = <<>>
    /\ variant \in {"RSI", "Bol"}
    /\ params \in SizeParams
    /\ \E w \in SizeWinReturns, nw \in SizeLens : wins = Rep(w, nw)
    /\ \E l \in SizeLossReturns, nl \in SizeLens : losses = Rep(l, nl)
    /\ order = None /\ entry_price = None /\ bar_count_in_position = 0
    /\ position = Zero /\ open_orders = <<>>
    /\ rng = 0
    /\ last = NothingSeen
    /\ call_in \in {Some(c) : c \in SizeCalls}
    /\ call_out = None
    /\ sizer_params = DefaultSizerParams
    /\ twins = <<NoTwin, NoTwin>>

SizeCall ==
    /\ call_out = None
    /\ call_out' = Some(calculate_position_size(Val(call_in).cash, Val(call_in).value,
                                                Val(call_in).price))
    /\ UNCHANGED <<kellyVars, historyVars, sizerVars, logVars, engineVars, brokerVars,
                   rng, last, call_in, sizer_params, twins>>

SizeNext == SizeCall

SpecSize == SizeInit /\ [][SizeNext]_vars

----------------------------------------------------------------------------
(* An AdaptivePositionSizer: its configuration, its history and the        *)
(* strategy's position are drawn at the start; the broker sends it trade   *)
(* notifications and one sizing request.                                   *)

MaxSizerTrades == 1     \* trade notifications closing a trade, per sizer run

SizerParams ==
    {[DefaultSizerParams EXCEPT !.method = m, !.fixed_size = f, !.min_trades = n,
                                !.max_position = b[2], !.min_position = b[1]] :
        m \in {"kelly", "fixed"}, f \in {R(1, 100), R(1, 10), R(1, 2)},
        n \in {0, 20},
        b \in {<<R(1, 20), R(3, 10)>>, <<R(1, 20), R(1, 50)>>}}

SizerLens == {0, MaxSide \div 2, MaxSide - 1, MaxSide}

\* isbuy, self.broker.getvalue() and data.close[0].
SizerCalls ==
    {[isbuy |-> b, value |-> R(1000, 1), price |-> R(p, 1)] :
        b \in BOOLEAN, p \in {0, 7}}

SizerTrades ==
    {Trade(TRUE, R(3, 1), R(100, 1)), Trade(TRUE, R(-2, 1), R(100, 1)),
     Trade(FALSE, R(3, 1), R(100, 1))}

SizerInit ==
    /\ k_in = KellyExample /\ k_out = None
    /\ wins = <<>> /\ losses = <<>>
    /\ \E w \in {R(1, 100), R(1, 50)}, nw \in SizerLens : sz_wins = Rep(w, nw)
    /\ \E l \in {R(-1, 50), R(-1, 100)}, nl \in SizerLens : sz_losses = Rep(l, nl)
    /\ h_target = "sizer" /\ win_log = <<>> /\ loss_log = <<>>
    /\ variant = "RSI" /\ params = DefaultParams
    /\ order = None /\ entry_price = None /\ bar_count_in_position = 0
    /\ position \in {R(0, 1), R(1, 4), R(5, 1)}
    /\ open_orders = <<>>
    /\ rng = 0
    /\ last = NothingSeen
    /\ call_in \in {Some(c) : c \in SizerCalls}
    /\ call_out = None
    /\ sizer_params \in SizerParams
    /\ twins = <<NoTwin, NoTwin>>

SizerCall ==
    /\ call_out = None
    /\ call_out' = Some(getsizing(Val(call_in).isbuy, Val(call_in).value,
                                  Val(call_in).price))
    /\ UNCHANGED <<kellyVars, historyVars, sizerVars, logVars, engineVars, brokerVars,
                   rng, last, call_in, sizer_params, twins>>

SizerTradeNotification ==
    /\ \E trade \in SizerTrades :
          /\ trade.isclosed => ClosedSoFar < MaxSizerTrades
          /\ sizer_notify_trade(trade)
          /\ LogTrade(trade)
    /\ UNCHANGED <<kellyVars, historyVars, engineVars, brokerVars, rng, last, callVars>>

SizerNext == SizerCall \/ SizerTradeNotification

SpecSizer == SizerInit /\ [][SizerNext]_vars

----------------------------------------------------------------------------
(* Two Rand_Strat objects in one Python process, each with a broker and a  *)
(* bar feed of its own.  Both are configured alike, seed included.  The    *)
(* random module is imported once per process, so both draw from rng.      *)

MaxTwinInputs == 4      \* bars and notifications fed to one object

TwinParams ==
    {[DefaultParams EXCEPT !.seed = Some(sd), !.hold_bars = 1] : sd \in {0, 3}}

\* Rand_Strat.__init__
twin_init(t) == [t EXCEPT !.built = TRUE, !.order = None, !.bar_count_in_position = 0]

\* Rand_Strat.next on the object t with the generator in state g: the
\* object and its broker afterwards, and the generator afterwards.
twin_next(t, g, bar) ==
    LET fed == [t EXCEPT !.inputs = Append(@, "bar")]
        decided(u, d) == [u EXCEPT !.decisions = Append(@, d)]
        submitted(u, o) ==
            [u EXCEPT !.order = Some(o), !.open_orders = Append(@, o)]
    IN  IF t.order # None
        THEN [twin |-> decided(fed, "none"), rng |-> g]
        ELSE LET count == IF t.position # Zero
                          THEN t.bar_count_in_position + 1
                          ELSE t.bar_count_in_position
                 counted == [fed EXCEPT !.bar_count_in_position = count]
                 should_trade == RLt(rng_value(g), params.trade_probability)
                 after ==
                     IF ~should_trade
                     THEN decided(counted, "none")
                     ELSE IF t.position = Zero
                          THEN IF bar.price = Zero
                               THEN decided(counted, "fault")
                               ELSE decided(submitted(counted,
                                        Order(TRUE, fixed_size(bar.cash, bar.price))),
                                        "buy")
                          ELSE IF count >= params.hold_bars
                               THEN decided(submitted(counted, Order(FALSE, t.position)),
                                            "sell")
                               ELSE decided(counted, "none")
             IN  [twin |-> after, rng |-> rng_step(g)]

\* The broker of t resolves the order o with the given status and
\* Rand_Strat.notify_order runs.
twin_notify_order(t, o, status) ==
    [t EXCEPT !.inputs = Append(@, status),
              !.open_orders = <<>>,
              !.position = IF status # "Completed" THEN @
                           ELSE IF o.isbuy THEN RAdd(@, o.size) ELSE RSub(@, o.size),
              !.order = None,
              !.bar_count_in_position =
                  IF status = "Completed" /\ o.isbuy THEN 0 ELSE @]

TwinsInit ==
    /\ k_in = KellyExample /\ k_out = None
    /\ HistoryIdle
    /\ variant = "Rand" /\ params \in TwinParams
    /\ order = None /\ entry_price = None /\ bar_count_in_position = 0
    /\ position = Zero /\ open_orders = <<>>
    /\ rng \in 0..(RngMod - 1)
    /\ last = NothingSeen
    /\ call_in = None /\ call_out = None
    /\ sizer_params = DefaultSizerParams
    /\ twins = <<NoTwin, NoTwin>>

TwinsIdle ==
    UNCHANGED <<kellyVars, historyVars, sizerVars, logVars, engineVars, brokerVars,
                last, call_in, call_out, sizer_params>>

\* An object is constructed: __init__ seeds the generator of the process.
TwinConstruct ==
    /\ \E i \in 1..2 :
          /\ ~twins[i].built
          /\ twins' = [twins EXCEPT ![i] = twin_init(@)]
          /\ rng' = IF params.seed # None THEN seeded(Val(params.seed)) ELSE rng
    /\ TwinsIdle

\* A bar is fed to one of the objects.
TwinBar ==
    /\ \E i \in 1..2, bar \in Bars("Rand") :
          /\ twins[i].built
          /\ Len(twins[i].inputs) < MaxTwinInputs
          /\ twins' = [twins EXCEPT ![i] = twin_next(twins[i], rng, bar).twin]
          /\ rng' = twin_next(twins[i], rng, bar).rng
    /\ TwinsIdle

\* The broker of one of the objects resolves its order and notifies it.
TwinOrderNotification ==
    /\ \E i \in 1..2, status \in {"Completed", "Rejected"} :
          /\ twins[i].open_orders # <<>>
          /\ Len(twins[i].inputs) < MaxTwinInputs
          /\ twins' = [twins EXCEPT
                          ![i] = twin_notify_order(@, twins[i].open_orders[1], status)]
    /\ UNCHANGED rng
    /\ TwinsIdle

TwinsNext == TwinConstruct \/ TwinBar \/ TwinOrderNotification

SpecTwins == TwinsInit /\ [][TwinsNext]_vars

----------------------------------------------------------------------------
(* A notification run: one object, a strategy or an AdaptivePositionSizer, *)
(* starts with empty lists and is sent a few trade notifications of every  *)
(* kind: open or closed, profit, loss or nothing, value zero or not.       *)
(* call_in holds the trade of the last notification.                       *)

MaxNotes == 3           \* closed trades per notification run

NoteTrades ==
    {Trade(c, R(p, 1), R(v, 1)) : c \in BOOLEAN, p \in {-2, 0, 3}, v \in {-100, 0, 100}}

NoteInit ==
    /\ k_in = KellyExample /\ k_out = None
    /\ wins = <<>> /\ losses = <<>>
    /\ sz_wins = <<>> /\ sz_losses = <<>>
    /\ h_target \in {"engine", "sizer"}
    /\ win_log = <<>> /\ loss_log = <<>>
    /\ variant = "RSI" /\ params = DefaultParams
    /\ order = None /\ entry_price = None /\ bar_count_in_position = 0
    /\ position = Zero /\ open_orders = <<>>
    /\ rng = 0
    /\ last = NothingSeen
    /\ call_in = None /\ call_out = None
    /\ sizer_params = DefaultSizerParams
    /\ twins = <<NoTwin, NoTwin>>

NoteAside ==
    <<kellyVars, engineVars, brokerVars, rng, last, call_out, sizer_params, twins>>

NoteStrategyTrade ==
    /\ h_target = "engine"
    /\ \E trade \in NoteTrades :
          /\ trade.isclosed => ClosedSoFar < MaxNotes
          /\ notify_trade(trade)
          /\ LogTrade(trade)
          /\ call_in' = Some(trade)
    /\ UNCHANGED <<NoteAside, sizerVars>>

NoteSizerTrade ==
    /\ h_target = "sizer"
    /\ \E trade \in NoteTrades :
          /\ trade.isclosed => ClosedSoFar < MaxNotes
          /\ sizer_notify_trade(trade)
          /\ LogTrade(trade)
          /\ call_in' = Some(trade)
    /\ UNCHANGED <<NoteAside, historyVars>>

NoteNext == NoteStrategyTrade \/ NoteSizerTrade

SpecNote == NoteInit /\ [][NoteNext]_vars

----------------------------------------------------------------------------
(* Properties of kelly_criterion (checked under SpecKelly) *)

KellyCalled == k_out # None
KellyResult == Val(k_out)
KellyValidStats ==
    /\ RGt(k_in.avg_win, Zero)
    /\ RLt(k_in.avg_loss, Zero)

\* C5, as claimed: for every input, also a negative maxLeverage, the value
\* returned by kelly_criterion lies in [0, maxLeverage].
C5_AsClaimed ==
    KellyCalled =>
        /\ ~KellyResult.raised
        /\ RLe(Zero, KellyResult.value)
        /\ RLe(KellyResult.value, k_in.max_leverage)

\* C5, amended: for every input with maxLeverage >= 0 the value returned by
\* kelly_criterion lies in [0, maxLeverage]; with maxLeverage < 0 it is 0.
C5_KellyWithinLeverage ==
    KellyCalled =>
        /\ ~KellyResult.raised
        /\ RGe(k_in.max_leverage, Zero) =>
              /\ RLe(Zero, KellyResult.value)
              /\ RLe(KellyResult.value, k_in.max_leverage)
        /\ RLt(k_in.max_leverage, Zero) => KellyResult.value = Zero

\* C5 witness: a call whose scaled Kelly value exceeds a positive maxLeverage
\* and is cut down to it.
C5_Witness ==
    /\ KellyCalled
    /\ k_in.win_rate = One /\ KellyValidStats
    /\ RGt(k_in.fraction, One)
    /\ RGt(k_in.max_leverage, Zero)
    /\ KellyResult.value = k_in.max_leverage

\* C6: kelly_criterion returns exactly 0, and raises nothing, whenever
\* winRate < 0, winRate > 1, avgLoss >= 0, avgWin <= 0 or winRate = 0.
C6_KellyZeroOnMalformed ==
    (/\ KellyCalled
     /\ \/ RLt(k_in.win_rate, Zero) \/ RGt(k_in.win_rate, One)
        \/ RGe(k_in.avg_loss, Zero) \/ RLe(k_in.avg_win, Zero)
        \/ k_in.win_rate = Zero)
    => (~KellyResult.raised /\ KellyResult.value = Zero)

\* C6 witness: a call with avgWin = 0 and a win rate strictly inside (0, 1),
\* where the win/loss ratio would be a zero divisor.
C6_Witness ==
    /\ KellyCalled
    /\ k_in.avg_win = Zero /\ RLt(k_in.avg_loss, Zero)
    /\ k_in.win_rate = R(1, 2)
    /\ RGt(k_in.fraction, Zero) /\ RGt(k_in.max_leverage, Zero)
    /\ KellyResult = Return(Zero)

\* C7, as claimed: for winRate = 1, avgWin > 0 and avgLoss < 0 the result is
\* maxLeverage * fraction for every maxLeverage and fraction.
C7_AsClaimed ==
    (KellyCalled /\ k_in.win_rate = One /\ KellyValidStats)
    => KellyResult = Return(RMul(k_in.max_leverage, k_in.fraction))

\* C7, amended: for winRate = 1, avgWin > 0 and avgLoss < 0 the result is
\* maxLeverage * fraction when 0 <= fraction <= 1 and maxLeverage >= 0, it is
\* maxLeverage when fraction > 1 and maxLeverage >= 0, and it is 0 when
\* fraction < 0 or maxLeverage < 0.
C7_KellyAlwaysWins ==
    (KellyCalled /\ k_in.win_rate = One /\ KellyValidStats)
    => /\ ~KellyResult.raised
       /\ (RGe(k_in.max_leverage, Zero) /\ RGe(k_in.fraction, Zero)
             /\ RLe(k_in.fraction, One))
           => KellyResult.value = RMul(k_in.max_leverage, k_in.fraction)
       /\ (RGe(k_in.max_leverage, Zero) /\ RGt(k_in.fraction, One))
           => KellyResult.value = k_in.max_leverage
       /\ (RLt(k_in.max_leverage, Zero) \/ RLt(k_in.fraction, Zero))
           => KellyResult.value = Zero

\* C7 witness: an always-winning call with a fraction strictly inside (0, 1)
\* and a maxLeverage other than 1, returning their product.
C7_Witness ==
    /\ KellyCalled
    /\ k_in.win_rate = One /\ KellyValidStats
    /\ k_in.max_leverage = R(2, 1) /\ k_in.fraction = R(1, 4)
    /\ KellyResult = Return(R(1, 2))

Clamp(x, lo, hi) == RMax(lo, RMin(x, hi))

\* C8: for 0 < winRate < 1, avgWin > 0 and avgLoss < 0 the result is
\* clamp((winRate - (1 - winRate) / |avgWin / avgLoss|) * fraction, 0,
\* maxLeverage); the inputs (0.6, 0.02, -0.01, 1.0, 0.25) give 0.10.
C8_KellyFormula ==
    (/\ KellyCalled /\ KellyValidStats
     /\ RLt(Zero, k_in.win_rate) /\ RLt(k_in.win_rate, One))
    => /\ KellyResult =
            Return(Clamp(RMul(RSub(k_in.win_rate,
                                   RDiv(RSub(One, k_in.win_rate),
                                        RAbs(RDiv(k_in.avg_win, k_in.avg_loss)))),
                              k_in.fraction),
                         Zero, k_in.max_leverage))
       /\ k_in = KellyExample => KellyResult = Return(R(1, 10))

\* C8 witness: the call of the example has returned 0.10.
C8_Witness ==
    /\ KellyCalled
    /\ k_in = KellyExample
    /\ KellyResult.value = R(1, 10)

----------------------------------------------------------------------------
(* Properties of the trade history (checked under SpecHist) *)

TargetWins == IF h_target = "engine" THEN wins ELSE sz_wins
TargetLosses == IF h_target = "engine" THEN losses ELSE sz_losses

\* C3: after any sequence of trade notifications the wins list and the
\* losses list of a strategy and of the AdaptivePositionSizer each hold at
\* most 100 entries.
C3_HistoryCapped ==
    /\ Len(wins) <= 100 /\ Len(losses) <= 100
    /\ Len(sz_wins) <= 100 /\ Len(sz_losses) <= 100

\* C3 witness: more than 100 winning trades have closed and the list holds
\* exactly 100 entries.
C3_Witness ==
    /\ Len(win_log) > 100
    /\ Len(TargetWins) = 100
    /\ Len(loss_log) = 1

\* The list holds the last min(100, n) of the n entries logged, in order.
IsNewest100(list, log) ==
    /\ Len(list) = IF Len(log) > 100 THEN 100 ELSE Len(log)
    /\ \A i \in 1..Len(list) : list[i] = log[Len(log) - Len(list) + i]

\* C4: eviction is FIFO truncation: after n closed winning trades the wins
\* list is the min(n, 100) most recent returns in arrival order, and the
\* losses list is what the losing trades alone made it; symmetrically for
\* losses.
C4_FifoTruncation ==
    /\ IsNewest100(TargetWins, win_log)
    /\ IsNewest100(TargetLosses, loss_log)

\* C4 witness: 102 wins and one loss have closed; the wins list starts at
\* the third win and ends at the last, the losses list holds the one loss.
C4_Witness ==
    /\ Len(win_log) = 102 /\ Len(loss_log) = 1
    /\ Len(TargetWins) = 100
    /\ TargetWins[1] = win_log[3] /\ TargetWins[100] = win_log[102]
    /\ TargetLosses = loss_log

\* len(self.wins) + len(self.losses) of the object that is notified.
RecordedTrades == Len(TargetWins) + Len(TargetLosses)

\* C30: the recorded trade count len(wins) + len(losses) never decreases,
\* truncation included, and is at most 200; once it has reached the Kelly
\* threshold of 20 trades it stays at or above it.
C30_TradeCountMonotone ==
    /\ [](RecordedTrades <= 2 * HistoryCap)
    /\ [][/\ RecordedTrades' >= RecordedTrades
          /\ RecordedTrades >= MinTradesForKelly
                => RecordedTrades' >= MinTradesForKelly]_vars

\* C30 witness: the 101st winning trade has closed after one losing trade;
\* the wins list was cut back to 100 entries and the count stays at 101,
\* above the threshold.
C30_Witness ==
    /\ Len(win_log) = 101 /\ Len(loss_log) = 1
    /\ Len(TargetWins) = HistoryCap /\ Len(TargetLosses) = 1
    /\ RecordedTrades = 101 /\ RecordedTrades >= MinTradesForKelly

----------------------------------------------------------------------------
(* Properties of the engine (checked under Spec) *)

BarSeen == last.event = "bar"
BuyEmitted == BarSeen /\ last.intents # <<>> /\ last.intents[1].isbuy
TotalTrades == Len(wins) + Len(losses)

\* C1: for every strategy and every interleaving of bars and order
\* notifications the broker holds at most one unresolved order of the
\* engine, and a bar processed while an order is pending emits no order,
\* even if the entry or exit condition holds on that bar.
C1_OneOutstandingOrder ==
    /\ Len(open_orders) <= 1
    /\ (BarSeen /\ last.pending_before) => last.intents = <<>>

\* C1 witness: a buy is pending, the engine is flat, and the bar just
\* processed had RSI below the oversold threshold.
C1_Witness ==
    /\ variant = "RSI" /\ BarSeen /\ last.pending_before
    /\ position = Zero
    /\ RLt(last.bar.rsi, params.rsi_oversold)
    /\ Len(open_orders) = 1 /\ open_orders[1].isbuy
    /\ order = Some(open_orders[1])

\* C2, as claimed: in every reachable state of an RSI or Band engine the
\* recorded entry price is non-null if and only if the position quantity is
\* non-zero.
C2_AsClaimed ==
    variant \in {"RSI", "Bol"} => ((entry_price # None) <=> (position # Zero))

\* C9: an entry of a strategy configured for Kelly is sized by the fixed
\* rule, without a call of kelly_criterion, when it has recorded at most 19
\* trades, and calls kelly_criterion when it has recorded 20 or more; an
\* entry of a strategy configured as fixed never calls it.
C9_KellyThreshold ==
    (BuyEmitted /\ variant \in {"RSI", "Bol"}) =>
        LET fixed == RDiv(RMul(last.bar.cash, params.position_size), last.bar.price)
        IN  /\ last.sizing.total_trades = TotalTrades
            /\ (params.position_method = "kelly" /\ TotalTrades <= 19) =>
                  /\ ~last.sizing.kelly_called
                  /\ last.sizing.rule = "fixed"
                  /\ last.intents[1].size = fixed
            /\ (params.position_method = "kelly" /\ TotalTrades >= 20) =>
                  last.sizing.kelly_called
            /\ params.position_method = "fixed" =>
                  /\ ~last.sizing.kelly_called
                  /\ last.sizing.rule = "fixed"
                  /\ last.intents[1].size = fixed

\* C9 witness: an entry decided with exactly 20 recorded trades under the
\* Kelly method has consulted kelly_criterion and is sized by its result.
C9_Witness ==
    /\ BuyEmitted /\ variant \in {"RSI", "Bol"}
    /\ params.position_method = "kelly"
    /\ TotalTrades = 20
    /\ last.sizing.kelly_called /\ last.sizing.rule = "kelly"

\* The exit conditions of the Band strategy in their order of priority; ""
\* when none matches.
FirstMatchingExit(bar) ==
    IF RGt(bar.price, bar.top) THEN "upper band"
    ELSE IF params.exit_on_middle /\ RGt(bar.price, bar.mid) THEN "middle band"
    ELSE IF /\ Truthy(params.stop_loss_pct) /\ Truthy(entry_price)
            /\ RLt(RMul(bar.price, R(100, 1)),
                   RMul(Val(entry_price), RSub(R(100, 1), Val(params.stop_loss_pct))))
    THEN "stop loss"
    ELSE IF /\ Truthy(params.take_profit_pct) /\ Truthy(entry_price)
            /\ RGt(RMul(bar.price, R(100, 1)),
                   RMul(Val(entry_price), RAdd(R(100, 1), Val(params.take_profit_pct))))
    THEN "take profit"
    ELSE ""

\* C10, as claimed: on a bar where the Band engine is in position with no
\* pending order, the exit reason chosen is that of the first matching
\* condition in the order upper band, middle band, stop loss, take profit,
\* and exactly one sell is emitted for it (none when no condition matches).
C10_AsClaimed ==
    (variant = "Bol" /\ BarSeen /\ ~last.pending_before
        /\ last.position_before # Zero)
    => /\ last.exit_reason = FirstMatchingExit(last.bar)
       /\ IF FirstMatchingExit(last.bar) # ""
          THEN Len(last.intents) = 1 /\ ~last.intents[1].isbuy
          ELSE last.intents = <<>>

SellEmitted == BarSeen /\ last.intents # <<>> /\ ~last.intents[1].isbuy

\* C11: on a bar with no pending order the RSI engine emits a buy if and
\* only if it is flat and RSI < oversold, and a sell (of the whole position)
\* if and only if it is in position and RSI > overbought; RSI equal to a
\* threshold emits nothing, a bar emits at most one order, and an engine in
\* position has its entry price set.
C11_RsiDecisionRule ==
    variant = "RSI" =>
        /\ position # Zero => entry_price # None
        /\ (BarSeen /\ ~last.pending_before) =>
              /\ Len(last.intents) <= 1
              /\ BuyEmitted <=>
                    /\ last.position_before = Zero
                    /\ RLt(last.bar.rsi, params.rsi_oversold)
              /\ SellEmitted <=>
                    /\ last.position_before # Zero
                    /\ RGt(last.bar.rsi, params.rsi_overbought)
              /\ SellEmitted => last.intents[1].size = last.position_before
              /\ last.bar.rsi \in {params.rsi_oversold, params.rsi_overbought}
                    => last.intents = <<>>

\* C11 witness: the end of the scenario.  With oversold = 20 the buy has
\* completed, the entry price is set, and the bar with RSI = 85 has emitted
\* one sell of the whole position.
C11_Witness ==
    /\ variant = "RSI" /\ params.rsi_oversold = R(20, 1)
    /\ BarSeen /\ ~last.pending_before
    /\ last.bar.rsi = R(85, 1)
    /\ last.position_before # Zero /\ entry_price # None
    /\ Len(last.intents) = 1 /\ SellEmitted
    /\ last.intents[1].size = last.position_before
    /\ open_orders = last.intents

\* C18, as claimed: on a bar where the Band engine is in position with no
\* pending order, neither band condition holds and the stop-loss condition
\* does not hold (not configured, or price not below
\* entryPrice * (1 - stopLossPct / 100)), if take-profit is configured, the
\* entry price is set and price > entryPrice * (1 + takeProfitPct / 100),
\* then a sell is emitted on that bar, also when a stop-loss percent is
\* configured together with the take-profit percent.
C18_AsClaimed ==
    (/\ variant = "Bol" /\ BarSeen /\ ~last.pending_before
     /\ last.position_before # Zero
     /\ ~RGt(last.bar.price, last.bar.top)
     /\ ~(params.exit_on_middle /\ RGt(last.bar.price, last.bar.mid))
     /\ \/ params.stop_loss_pct = None
        \/ entry_price = None
        \/ ~RLt(RMul(last.bar.price, R(100, 1)),
                RMul(Val(entry_price),
                     RSub(R(100, 1), Val(params.stop_loss_pct))))
     /\ Truthy(params.take_profit_pct) /\ Truthy(entry_price)
     /\ RGt(RMul(last.bar.price, R(100, 1)),
            RMul(Val(entry_price), RAdd(R(100, 1), Val(params.take_profit_pct)))))
    => SellEmitted

\* C15: a Canceled, Margin or Rejected notification received while an order
\* is pending clears the pending flag and changes nothing else: the position,
\* the entry price, the wins and losses lists and the holding-bar counter
\* are as before, and the order leaves the broker's book.
C15_FailedOrderClearsFlagOnly ==
    [][(/\ order # None
        /\ last'.event = "order"
        /\ last'.status \in FailureStatuses)
       => /\ order' = None
          /\ open_orders' = <<>>
          /\ UNCHANGED <<position, entry_price, wins, losses,
                         bar_count_in_position, rng, params, variant>>]_vars

\* C15 witness: a sell of a held position has just been rejected; the engine
\* is in position with its entry price (RSI, Band) or with bars counted
\* (Random), and nothing is pending.
C15_Witness ==
    /\ last.event = "order" /\ last.status \in FailureStatuses
    /\ last.pending_before
    /\ order = None /\ open_orders = <<>>
    /\ position # Zero
    /\ IF variant = "Rand" THEN bar_count_in_position >= 2 ELSE entry_price # None

----------------------------------------------------------------------------
(* Properties of calculate_position_size (checked under SpecSize) *)

Called == call_out # None
Result == Val(call_out)
Given == Val(call_in)

\* C14, as claimed: no input drives an engine into a fault; an entry
\* decision on a bar whose close price is 0 yields no order or a fixed-size
\* order like every other anomaly.
C14_AsClaimed == Called => ~Result.raised

\* The statistics calculate_position_size derives from the history and the
\* Kelly fraction they give.
HistoryWinRate == R(Len(wins), TotalTrades)
HistoryAvgWin ==
    IF Len(wins) > 0 THEN RDiv(sum(wins), R(Len(wins), 1)) ELSE R(1, 50)
HistoryAvgLoss ==
    IF Len(losses) > 0 THEN RDiv(sum(losses), R(Len(losses), 1)) ELSE R(-3, 200)
HistoryKelly ==
    kelly_criterion(HistoryWinRate, HistoryAvgWin, HistoryAvgLoss, One,
                    params.kelly_fraction).value

\* C19: with Kelly configured and at least 20 recorded trades, when
\* kelly_criterion returns 0 the entry is sized as the fixed rule sizes it
\* (size * price = cash * configured fraction), and when it returns a
\* positive fraction k the entry is sized as k of portfolio value
\* (size * price = k * value).  A size comes back exactly when the close
\* price is not 0.
C19_KellyFallback ==
    (Called /\ params.position_method = "kelly" /\ TotalTrades >= 20) =>
        /\ Result.raised <=> Given.price = Zero
        /\ ~Result.raised =>
              /\ Result.sizing.kelly_called
              /\ HistoryKelly = Zero =>
                    /\ Result.sizing.rule = "fixed"
                    /\ Result.size =
                         RDiv(RMul(Given.cash, params.position_size), Given.price)
              /\ RGt(HistoryKelly, Zero) =>
                    /\ Result.sizing.rule = "kelly"
                    /\ Result.size =
                         RDiv(RMul(Given.value, HistoryKelly), Given.price)

\* C19 witness: all 20 recorded trades are losses, kelly_criterion gives 0,
\* and the entry is 2% of the cash although the portfolio is worth more.
C19_Witness ==
    /\ Called /\ ~Result.raised
    /\ params.position_method = "kelly" /\ params.position_size = R(1, 50)
    /\ Len(wins) = 0 /\ Len(losses) = 20
    /\ HistoryKelly = Zero
    /\ Given.cash = R(1000, 1) /\ Given.value = R(1200, 1) /\ Given.price = R(100, 1)
    /\ Result.size = R(1, 5)

\* C20, as claimed: whenever an entry is sized by the fixed-fraction rule,
\* the cash committed (size * price) is clamp(configured fraction, 0, 1) of
\* the available cash, hence between 0 and the cash, for every configured
\* fraction, above 1 or below 0 included.
C20_AsClaimed ==
    (Called /\ ~Result.raised /\ Result.sizing.rule = "fixed") =>
        LET committed == RMul(Result.size, Given.price)
        IN  /\ committed = RMul(Clamp(params.position_size, Zero, One), Given.cash)
            /\ RLe(Zero, committed) /\ RLe(committed, Given.cash)

\* C31, as claimed: with Kelly configured and at least 20 recorded trades
\* the substituted default averages never reach the order size: an empty
\* wins list gives the fixed size (cash * configured fraction / price), and
\* an empty losses list gives min(kelly_fraction, 1) * 1.0 of the portfolio
\* value.
C31_AsClaimed ==
    (/\ Called /\ ~Result.raised
     /\ params.position_method = "kelly" /\ TotalTrades >= 20) =>
        /\ wins = <<>> =>
              /\ HistoryWinRate = Zero
              /\ Result.sizing.rule = "fixed"
              /\ Result.size =
                   RDiv(RMul(Given.cash, params.position_size), Given.price)
        /\ losses = <<>> =>
              /\ HistoryWinRate = One
              /\ Result.sizing.rule = "kelly"
              /\ Result.size =
                   RDiv(RMul(Given.value,
                             RMul(RMin(params.kelly_fraction, One), One)),
                        Given.price)

----------------------------------------------------------------------------
(* Properties of AdaptivePositionSizer._getsizing (checked under SpecSizer) *)

\* C16, as claimed: for every buy request, whatever the history and the
\* configuration, the capital fraction the sizer applies to the portfolio
\* value lies in [minPosition, maxPosition].
C16_AsClaimed ==
    (Called /\ Given.isbuy) =>
        /\ Result.fraction # None
        /\ RLe(sizer_params.min_position, Val(Result.fraction))
        /\ RLe(Val(Result.fraction), sizer_params.max_position)

\* C16, amended: for every buy request, whatever the history and the method,
\* the capital fraction the sizer applies to the portfolio value lies in
\* [minPosition, maxPosition] when minPosition <= maxPosition, and is
\* minPosition when minPosition > maxPosition.
C16_FractionWithinBounds ==
    (Called /\ Given.isbuy) =>
        /\ Result.fraction # None
        /\ RLe(sizer_params.min_position, sizer_params.max_position) =>
              /\ RLe(sizer_params.min_position, Val(Result.fraction))
              /\ RLe(Val(Result.fraction), sizer_params.max_position)
        /\ RGt(sizer_params.min_position, sizer_params.max_position) =>
              Val(Result.fraction) = sizer_params.min_position
        /\ ~Result.raised =>
              Result.size = int(RDiv(RMul(Given.value, Val(Result.fraction)),
                                     Given.price))

\* C16 witness: a Kelly sizer whose 20 recorded trades are all losses gets 0
\* from kelly_criterion and applies minPosition = 5% of the portfolio value:
\* 50 / 7 truncated to 7 units.
C16_Witness ==
    /\ Called /\ Given.isbuy /\ ~Result.raised
    /\ sizer_params.method = "kelly"
    /\ sizer_params.min_position = R(1, 20) /\ sizer_params.max_position = R(3, 10)
    /\ Len(sz_wins) = 0 /\ Len(sz_losses) >= 20
    /\ sizer_fraction = Return(Zero)
    /\ Result.fraction = Some(R(1, 20))
    /\ Given.price = R(7, 1) /\ Result.size = R(7, 1)

\* C17: for every sell request the sizer returns exactly the strategy's
\* current position size, whatever its history, method and bounds and
\* whatever the price, and the request leaves its history unchanged.
C17_SellReturnsPosition ==
    [][(call_out = None /\ call_out' # None /\ ~Given.isbuy)
       => /\ call_out' = Some(SizerOutcome(FALSE, position, None))
          /\ UNCHANGED <<sz_wins, sz_losses, position>>]_vars

\* C17 witness: a sell request made at a close price of 0 by a Kelly sizer
\* with 20 or more recorded trades has returned the position of 1/4 unit.
C17_Witness ==
    /\ Called /\ ~Given.isbuy
    /\ Given.price = Zero
    /\ sizer_params.method = "kelly" /\ Len(sz_wins) + Len(sz_losses) >= 20
    /\ position = R(1, 4)
    /\ Result = SizerOutcome(FALSE, R(1, 4), None)

----------------------------------------------------------------------------
(* Properties of two Rand_Strat objects in one process (checked under      *)
(* SpecTwins)                                                              *)

\* C12, as claimed: two objects constructed with the same seed and fed the
\* same sequence of bars and notifications have emitted the same sequence
\* of decisions, whatever the order in which they were constructed and run.
C12_AsClaimed ==
    (/\ twins[1].built /\ twins[2].built
     /\ twins[1].inputs = twins[2].inputs)
    => twins[1].decisions = twins[2].decisions

\* C13, as claimed: what an object will draw next is unaffected by the
\* construction of another object and by the bars another object processes:
\* a step that leaves a constructed object alone leaves the generator it
\* draws from as it was.
C13_AsClaimed ==
    [][\A i \in 1..2 :
          (twins[i].built /\ twins'[i] = twins[i]) => rng' = rng]_vars

----------------------------------------------------------------------------
(* Further properties of the engine (checked under Spec) *)

EngineState ==
    <<order, entry_price, bar_count_in_position, wins, losses, rng,
      position, open_orders, params, variant>>

\* C21: a bar processed while an order is pending emits nothing and changes
\* no engine state: the pending order, the entry price, the history, the
\* generator of the Random variant and its holding-bar counter are as
\* before, so the engine stays pending for as many bars as arrive.
C21_PendingBarChangesNothing ==
    [][(order # None /\ last'.event \in {"bar", "fault"})
       => /\ last'.event = "bar" /\ last'.intents = <<>>
          /\ UNCHANGED EngineState]_vars

\* C21 witness: a Random engine in position, its sell pending and the
\* holding period over, has just processed a bar on which the generator
\* stands at a value below the trade probability; the sell is still the one
\* pending order.
C21_Witness ==
    /\ variant = "Rand" /\ BarSeen /\ last.pending_before
    /\ last.intents = <<>>
    /\ position # Zero
    /\ bar_count_in_position >= params.hold_bars
    /\ RLt(rng_value(rng), params.trade_probability)
    /\ Len(open_orders) = 1 /\ ~open_orders[1].isbuy
    /\ order = Some(open_orders[1])

\* C22: an order notification with status Submitted or Accepted leaves the
\* whole engine state unchanged, the order still pending; a notification
\* with any other status (Completed, Canceled, Margin, Rejected) clears the
\* pending flag.
C22_OnlyFinalStatusClearsFlag ==
    [][last'.event = "order"
       => IF last'.status \in {"Submitted", "Accepted"}
          THEN UNCHANGED EngineState /\ order' # None
          ELSE /\ last'.status \in {"Completed", "Canceled", "Margin", "Rejected"}
               /\ order' = None]_vars

\* C22 witness: an Accepted notification has just been handled and the buy
\* it was about is still pending.
C22_Witness ==
    /\ last.event = "order" /\ last.status = "Accepted"
    /\ last.pending_before
    /\ Len(open_orders) = 1 /\ open_orders[1].isbuy
    /\ order = Some(open_orders[1])

\* The step is the handling of a Completed notification for a buy.
BuyFilled ==
    /\ last'.event = "order" /\ last'.status = "Completed"
    /\ order # None /\ Val(order).isbuy

\* The step is a bar evaluated by an engine in position with nothing pending.
BarInPosition ==
    /\ last'.event \in {"bar", "fault"}
    /\ order = None /\ position # Zero

\* C23: in the Random variant the holding-bar counter is reset to zero on
\* every completed buy, is incremented by one on each bar evaluated in
\* position and changes at no other step; a sell is emitted only on a bar
\* where the counter is at least holdBars; the counter never exceeds the
\* number of bars fed since the buy was filled, so at least holdBars bars
\* lie between a fill and any sell, in later round trips and after a
\* rejected sell as well.
C23_HoldingPeriod ==
    /\ [](variant = "Rand" =>
            /\ bar_count_in_position <= last.bars_held
            /\ SellEmitted =>
                  /\ bar_count_in_position >= params.hold_bars
                  /\ last.bars_held >= params.hold_bars)
    /\ [][variant = "Rand" =>
            bar_count_in_position' =
                IF BuyFilled THEN 0
                ELSE IF BarInPosition THEN bar_count_in_position + 1
                ELSE bar_count_in_position]_vars

\* C23 witness: a sell has been emitted on a bar where more bars have gone
\* by since the fill than the counter shows: a bar arrived while an earlier
\* sell was pending, that sell failed, and the sell is emitted again.
C23_Witness ==
    /\ variant = "Rand" /\ SellEmitted
    /\ params.hold_bars = 2
    /\ bar_count_in_position >= 2
    /\ last.bars_held > bar_count_in_position

\* C25: the wins and losses lists change only in the handler of a closed
\* trade: a notification of a trade that is not closed, every bar (also one
\* that emits an order) and every order notification leave both lists as
\* they were.
C25_HistoryChangesOnTradeClosedOnly ==
    [][(last'.event = "trade" /\ last'.trade_closed) \/ UNCHANGED <<wins, losses>>]_vars

\* C25 witness: a strategy with recorded trades has just been notified of a
\* trade that is still open.
C25_Witness ==
    /\ variant \in {"RSI", "Bol"}
    /\ last.event = "trade" /\ ~last.trade_closed
    /\ wins # <<>> /\ losses # <<>>

\* C26: no retry is scheduled after a failed order, but the signal can fire
\* again.  On every bar an RSI engine is fed after a Canceled, Margin or
\* Rejected notification, as long as it has submitted nothing since, no
\* order is pending, and the bar emits a buy if the engine is flat and
\* RSI < oversold, a sell of the position if it is in position and
\* RSI > overbought, and nothing otherwise.
C26_SignalFiresAgain ==
    (variant = "RSI" /\ last.event \in {"bar", "fault"} /\ last.since_failure) =>
        /\ last.event = "bar" /\ ~last.pending_before
        /\ IF last.position_before = Zero /\ RLt(last.bar.rsi, params.rsi_oversold)
           THEN Len(last.intents) = 1 /\ BuyEmitted /\ order = Some(last.intents[1])
           ELSE IF /\ last.position_before # Zero
                   /\ RGt(last.bar.rsi, params.rsi_overbought)
           THEN last.intents = <<Order(FALSE, last.position_before)>>
                /\ order = Some(last.intents[1])
           ELSE last.intents = <<>> /\ order = None

\* C26 witness: the sell of an RSI engine failed, nothing has been
\* submitted since, and a bar with RSI 85 has now emitted the sell anew.
C26_Witness ==
    /\ variant = "RSI" /\ BarSeen /\ last.since_failure
    /\ last.position_before # Zero
    /\ last.bar.rsi = R(85, 1)
    /\ SellEmitted /\ open_orders = last.intents

\* The step is the handling of a Completed notification for a sell.
SellFilled ==
    /\ last'.event = "order" /\ last'.status = "Completed"
    /\ order # None /\ ~Val(order).isbuy

\* C27: every sell emitted by any of the three strategies asks for exactly
\* the position held when it is emitted, the position is still that when
\* the sell completes, and the completed sell leaves the position flat.
C27_FullExitOnly ==
    /\ [](/\ SellEmitted =>
              /\ last.position_before # Zero
              /\ last.intents = <<Order(FALSE, last.position_before)>>
          /\ \A i \in 1..Len(open_orders) :
                ~open_orders[i].isbuy => open_orders[i].size = position)
    /\ [][SellFilled => position' = Zero]_vars

\* C27 witness: the sell of a Band engine has completed; the position held
\* before is gone and the entry price is cleared.
C27_Witness ==
    /\ variant = "Bol"
    /\ last.event = "order" /\ last.status = "Completed"
    /\ last.position_before # Zero
    /\ position = Zero /\ entry_price = None /\ order = None

\* C28: a buy is emitted only by a flat engine with no pending order and a
\* sell only by an engine in position with no pending order; a buy
\* completes only on a flat position and opens it, a sell completes only on
\* an open position and closes it, so completed buys and sells alternate,
\* starting with a buy, and an open position is never added to.
C28_Lifecycle ==
    /\ [](/\ BuyEmitted => (~last.pending_before /\ last.position_before = Zero)
          /\ SellEmitted => (~last.pending_before /\ last.position_before # Zero)
          /\ order # None => open_orders = <<Val(order)>>
          /\ order = None => open_orders = <<>>
          /\ \A i \in 1..Len(open_orders) :
                open_orders[i].isbuy <=> position = Zero)
    /\ [][/\ BuyFilled => (position = Zero /\ position' # Zero)
          /\ SellFilled => (position # Zero /\ position' = Zero)
          /\ position' # position => (BuyFilled \/ SellFilled)]_vars

\* C28 witness: a Random engine is back in Idle after one full cycle: its
\* sell has completed after the holding period, nothing is pending and the
\* position is flat.
C28_Witness ==
    /\ variant = "Rand"
    /\ last.event = "order" /\ last.status = "Completed"
    /\ last.pending_before /\ last.position_before # Zero
    /\ last.bars_held >= params.hold_bars
    /\ position = Zero /\ order = None /\ open_orders = <<>>

----------------------------------------------------------------------------
(* Properties of the trade notifications (checked under SpecNote) *)

\* trade.pnlcomm / |trade.value|, 0 when trade.value is 0.
ReturnOf(trade) ==
    IF trade.value = Zero THEN Zero ELSE RDiv(trade.pnlcomm, RAbs(trade.value))

\* C24, as claimed: each closed-trade notification appends exactly one entry
\* to exactly one of the two lists: the value pnlAfterCommission /
\* |openValue| (0 when openValue is 0), appended to wins if that value is
\* positive and to losses otherwise.
C24_AsClaimed ==
    [][(call_in' # None /\ Val(call_in').isclosed)
       => LET r == ReturnOf(Val(call_in'))
          IN  IF RGt(r, Zero)
              THEN /\ TargetWins' = Append(TargetWins, r)
                   /\ TargetLosses' = TargetLosses
              ELSE /\ TargetLosses' = Append(TargetLosses, r)
                   /\ TargetWins' = TargetWins]_vars

\* C29, as claimed: in every reachable state every entry of the wins list
\* is strictly positive and every entry of the losses list is at most 0,
\* also after closed trades whose openValue is 0.
C29_AsClaimed ==
    /\ \A i \in 1..Len(TargetWins) : RGt(TargetWins[i], Zero)
    /\ \A i \in 1..Len(TargetLosses) : RLe(TargetLosses[i], Zero)

====
